---- MODULE Spec2Model ----
(***************************************************************************)
(* The transistor image tutorial notebook, read as one top-to-bottom run   *)
(* of its code cells: the corpus partitioning cell (section 1.3), mention   *)
(* extraction (2.1) and candidate extraction over the three splits (2.2).   *)
(*                                                                         *)
(* A document is a record with its name; a name is a Python str, modelled   *)
(* as the sequence of its code points and compared as Python compares str.  *)
(* A split fraction is a multiple of 1/Den, which a binary float holds      *)
(* exactly (as it holds the notebook's 0.5 and 0.75), so that the product   *)
(* splits[k] * ld and the comparison i < splits[k] * ld are exact.          *)
(***************************************************************************)
EXTENDS Integers, Sequences, FiniteSets, TLC

\* Bounds of the model.
MaxDocs == 4
MaxRuns == 2

\* splits = (0.5, 0.75) = (2/Den, 3/Den)
Den == 4
TutorialSplits == <<2, 3>>

\* The names a stored document may carry: "a", "b", "c", "d", "ab".
NamePool == { <<97>>, <<98>>, <<99>>, <<100>>, <<97, 98>> }

Document == [name : NamePool]

\* The pairs (f1, f2) the partitioning is run with, as numerators over Den:
\* every pair of quarters from -1/4 to 5/4, valid or not.
SplitChoices == (-1 .. Den + 1) \X (-1 .. Den + 1)

VARIABLES
    store,        \* the Document rows of the database
    splits,       \* splits, as numerators over Den
    pc,           \* the statement the notebook run is at
    docs,         \* the Python name docs: a list, later rebound to a set
    ld,           \* ld = len(docs)
    train_docs, dev_docs, test_docs,
    data,         \* the list of (doc.name, doc) pairs
    i,            \* the index enumerate() is at (iterations done so far)
    mention_calls,   \* the arguments of mention_extractor.apply, in call order
    cand_calls,      \* the arguments of candidate_extractor.apply, in call order
    run,          \* which run of the notebook this is
    prev          \* the three subsets the previous run ended with

vars == << store, splits, pc, docs, ld, train_docs, dev_docs, test_docs,
           data, i, mention_calls, cand_calls, run, prev >>

\* A Python value bound to the name docs: a list or a set of documents.
AsList(s) == [kind |-> "list", list |-> s, set |-> {}]
AsSet(S) == [kind |-> "set", list |-> << >>, set |-> S]

Range(s) == { s[k] : k \in 1 .. Len(s) }

\* Python's str comparison a < b: by code point, a proper prefix first.
RECURSIVE StrLess_Reversed(_, _)
RECURSIVE StrLess(_, _)
StrLess_Reversed(a, b) ==
    IF b = << >> THEN a # << >>
    ELSE IF a = << >> THEN FALSE
    ELSE IF Head(a) = Head(b) THEN StrLess_Reversed(Tail(a), Tail(b))
    ELSE Head(b) < Head(a)
StrLess(a, b) ==
    IF a = << >> THEN b # << >>
    ELSE IF b = << >> THEN FALSE
    ELSE IF Head(a) = Head(b) THEN StrLess(Tail(a), Tail(b))
    ELSE Head(a) < Head(b)

\* list.sort(key=lambda x: x[0]): a stable sort of the pairs by their first
\* component, here by insertion from the left.
RECURSIVE Insert(_, _)
Insert(x, s) ==
    IF s = << >> THEN << x >>
    ELSE IF StrLess(x[1], Head(s)[1]) THEN << x >> \o s
    ELSE << Head(s) >> \o Insert(x, Tail(s))

RECURSIVE InsertionSort(_)
InsertionSort(s) ==
    IF s = << >> THEN << >>
    ELSE Insert(s[Len(s)], InsertionSort(SubSeq(s, 1, Len(s) - 1)))

SortByName_Dropped(s) == s
SortByName(s) == InsertionSort(s)

\* The orders in which a query may deliver the rows S: ORDER BY name under
\* the database's collation, which need not be Python's order.
Deliveries(S) ==
    { s \in [1 .. Cardinality(S) -> S] :
        \A a, b \in 1 .. Cardinality(S) : a # b => s[a] # s[b] }

\* i < splits[0] * ld
InTrain_Inclusive(k) == k * Den <= splits[1] * ld
InTrain_Floor(k) == k < (splits[1] * ld) \div Den
InTrain(k) == k * Den < splits[1] * ld

\* i < splits[1] * ld
InDev_Inclusive(k) == k * Den <= splits[2] * ld
InDev(k) == k * Den < splits[2] * ld

Init ==
    /\ store \in { S \in SUBSET Document : Cardinality(S) <= MaxDocs }
    /\ splits \in SplitChoices
    /\ pc = "query"
    /\ docs = AsList(<< >>)
    /\ ld = 0
    /\ train_docs = {}
    /\ dev_docs = {}
    /\ test_docs = {}
    /\ data = << >>
    /\ i = 0
    /\ mention_calls = << >>
    /\ cand_calls = << >>
    /\ run = 1
    /\ prev = << {}, {}, {} >>

\* docs = session.query(Document).order_by(Document.name).all(); ld = len(docs)
Query ==
    /\ pc = "query"
    /\ \E s \in Deliveries(store) :
        /\ docs' = AsList(s)
        /\ ld' = Len(s)
    /\ pc' = "sets"
    /\ UNCHANGED << store, splits, train_docs, dev_docs, test_docs, data, i,
                    mention_calls, cand_calls, run, prev >>

\* train_docs = set(); dev_docs = set(); test_docs = set(); splits = ...
InitSets ==
    /\ pc = "sets"
    /\ train_docs' = {}
    /\ dev_docs' = {}
    /\ test_docs' = {}
    /\ pc' = "data"
    /\ UNCHANGED << store, splits, docs, ld, data, i, mention_calls,
                    cand_calls, run, prev >>

\* data = [(doc.name, doc) for doc in docs]
BuildData ==
    /\ pc = "data"
    /\ data' = [k \in 1 .. Len(docs.list) |->
                    << docs.list[k].name, docs.list[k] >>]
    /\ pc' = "sort"
    /\ UNCHANGED << store, splits, docs, ld, train_docs, dev_docs, test_docs,
                    i, mention_calls, cand_calls, run, prev >>

\* data.sort(key=lambda x: x[0]), and the for loop's enumerate starts at 0
SortData_InPlace ==
    /\ pc = "sort"
    /\ data' = SortByName(data)
    /\ docs' = AsList([k \in 1 .. Len(data) |-> data'[k][2]])
    /\ i' = 0
    /\ pc' = "loop"
    /\ UNCHANGED << store, splits, ld, train_docs, dev_docs, test_docs,
                    mention_calls, cand_calls, run, prev >>
SortData ==
    /\ pc = "sort"
    /\ data' = SortByName(data)
    /\ i' = 0
    /\ pc' = "loop"
    /\ UNCHANGED << store, splits, docs, ld, train_docs, dev_docs, test_docs,
                    mention_calls, cand_calls, run, prev >>

\* if i < splits[0] * ld: train_docs.add(doc)
LoopTrain_NoElif ==
    /\ pc = "loop"
    /\ i < Len(data)
    /\ InTrain(i)
    /\ train_docs' = train_docs \cup { data[i + 1][2] }
    /\ IF InDev(i)
       THEN dev_docs' = dev_docs \cup { data[i + 1][2] } /\ test_docs' = test_docs
       ELSE test_docs' = test_docs \cup { data[i + 1][2] } /\ dev_docs' = dev_docs
    /\ i' = i + 1
    /\ UNCHANGED << store, splits, pc, docs, ld, data,
                    mention_calls, cand_calls, run, prev >>
LoopTrain ==
    /\ pc = "loop"
    /\ i < Len(data)
    /\ InTrain(i)
    /\ train_docs' = train_docs \cup { data[i + 1][2] }
    /\ i' = i + 1
    /\ UNCHANGED << store, splits, pc, docs, ld, dev_docs, test_docs, data,
                    mention_calls, cand_calls, run, prev >>

\* elif i < splits[1] * ld: dev_docs.add(doc)
LoopDev ==
    /\ pc = "loop"
    /\ i < Len(data)
    /\ ~InTrain(i)
    /\ InDev(i)
    /\ dev_docs' = dev_docs \cup { data[i + 1][2] }
    /\ i' = i + 1
    /\ UNCHANGED << store, splits, pc, docs, ld, train_docs, test_docs, data,
                    mention_calls, cand_calls, run, prev >>

\* else: test_docs.add(doc)
LoopTest ==
    /\ pc = "loop"
    /\ i < Len(data)
    /\ ~InTrain(i)
    /\ ~InDev(i)
    /\ test_docs' = test_docs \cup { data[i + 1][2] }
    /\ i' = i + 1
    /\ UNCHANGED << store, splits, pc, docs, ld, train_docs, dev_docs, data,
                    mention_calls, cand_calls, run, prev >>

\* enumerate(data) is exhausted; the cell ends (pprint only reads)
LoopExit_Early ==
    /\ pc = "loop"
    /\ i >= Len(data) - 1
    /\ pc' = "mention"
    /\ UNCHANGED << store, splits, docs, ld, train_docs, dev_docs, test_docs,
                    data, i, mention_calls, cand_calls, run, prev >>
LoopExit ==
    /\ pc = "loop"
    /\ i = Len(data)
    /\ pc' = "mention"
    /\ UNCHANGED << store, splits, docs, ld, train_docs, dev_docs, test_docs,
                    data, i, mention_calls, cand_calls, run, prev >>

\* mention_extractor.apply(docs)
MentionExtract ==
    /\ pc = "mention"
    /\ mention_calls' = Append(mention_calls, docs)
    /\ pc' = "cand_train"
    /\ UNCHANGED << store, splits, docs, ld, train_docs, dev_docs, test_docs,
                    data, i, cand_calls, run, prev >>

\* candidate_extractor.apply(train_docs, split=0)
CandTrain ==
    /\ pc = "cand_train"
    /\ cand_calls' = Append(cand_calls, [docs |-> train_docs, split |-> 0])
    /\ i' = 0
    /\ pc' = "cand_rest"
    /\ UNCHANGED << store, splits, docs, ld, train_docs, dev_docs, test_docs,
                    data, mention_calls, run, prev >>

\* for i, docs in enumerate([dev_docs, test_docs]):
\*     candidate_extractor.apply(docs, split=i+1)
CandRest_SplitIsIndex ==
    /\ pc = "cand_rest"
    /\ i < Len(<< dev_docs, test_docs >>)
    /\ docs' = AsSet(<< dev_docs, test_docs >>[i + 1])
    /\ cand_calls' = Append(cand_calls, [docs |-> docs'.set, split |-> i])
    /\ i' = i + 1
    /\ UNCHANGED << store, splits, pc, ld, train_docs, dev_docs, test_docs,
                    data, mention_calls, run, prev >>
CandRest ==
    /\ pc = "cand_rest"
    /\ i < Len(<< dev_docs, test_docs >>)
    /\ docs' = AsSet(<< dev_docs, test_docs >>[i + 1])
    /\ cand_calls' = Append(cand_calls, [docs |-> docs'.set, split |-> i + 1])
    /\ i' = i + 1
    /\ UNCHANGED << store, splits, pc, ld, train_docs, dev_docs, test_docs,
                    data, mention_calls, run, prev >>

CandExit ==
    /\ pc = "cand_rest"
    /\ i = Len(<< dev_docs, test_docs >>)
    /\ pc' = "done"
    /\ UNCHANGED << store, splits, docs, ld, train_docs, dev_docs, test_docs,
                    data, i, mention_calls, cand_calls, run, prev >>

\* The notebook is run again from the top in a fresh kernel, over the same
\* database and with the same splits.
Restart ==
    /\ pc = "done"
    /\ run < MaxRuns
    /\ prev' = << train_docs, dev_docs, test_docs >>
    /\ run' = run + 1
    /\ pc' = "query"
    /\ docs' = AsList(<< >>)
    /\ ld' = 0
    /\ train_docs' = {}
    /\ dev_docs' = {}
    /\ test_docs' = {}
    /\ data' = << >>
    /\ i' = 0
    /\ mention_calls' = << >>
    /\ cand_calls' = << >>
    /\ UNCHANGED << store, splits >>

Next ==
    \/ Query
    \/ InitSets
    \/ BuildData
    \/ SortData
    \/ LoopTrain
    \/ LoopDev
    \/ LoopTest
    \/ LoopExit
    \/ MentionExtract
    \/ CandTrain
    \/ CandRest
    \/ CandExit
    \/ Restart

Spec == Init /\ [][Next]_vars

(***************************************************************************)
(* The properties checked.                                                 *)
(***************************************************************************)

\* The partitioning loop has walked the whole sorted list.
PartitionDone == pc \in { "mention", "cand_train", "cand_rest", "done" }

\* 0 <= f1 <= f2 <= 1
ValidSplits == 0 <= splits[1] /\ splits[1] <= splits[2] /\ splits[2] <= Den

N == Cardinality(store)

\* The 0-indexed rank of document d in the name-sorted order of the store.
Rank(d) == Cardinality({ e \in store : StrLess(e.name, d.name) })

\* ceil(f * N) for the fraction f = num / Den
CeilFrac(num) == (num * N + Den - 1) \div Den

IsPartition ==
    /\ train_docs \cap dev_docs = {}
    /\ train_docs \cap test_docs = {}
    /\ dev_docs \cap test_docs = {}
    /\ train_docs \cup dev_docs \cup test_docs = store

\* Every document carries the label the boundary rule gives its rank.
RankRule ==
    \A d \in store :
        /\ d \in train_docs <=> Rank(d) * Den < splits[1] * N
        /\ d \in dev_docs <=> /\ splits[1] * N <= Rank(d) * Den
                              /\ Rank(d) * Den < splits[2] * N
        /\ d \in test_docs <=> /\ splits[1] * N <= Rank(d) * Den
                               /\ splits[2] * N <= Rank(d) * Den

Doc(n) == [name |-> n]

\* C1: for unique names and valid fractions, once the loop has walked the
\* whole sorted list the three subsets are pairwise disjoint and their union
\* is exactly the document set.
C1_Partition == (PartitionDone /\ ValidSplits) => IsPartition

C1_Witness ==
    /\ PartitionDone /\ ValidSplits /\ N = MaxDocs
    /\ train_docs # {} /\ dev_docs # {} /\ test_docs # {}

\* C2: for valid fractions, the document at rank i of the name-sorted order is
\* in train if i < f1*N, in dev if f1*N <= i < f2*N, and in test otherwise.
C2_RankRule == (PartitionDone /\ ValidSplits) => RankRule

C2_Witness ==
    /\ PartitionDone /\ ValidSplits /\ N >= 3
    /\ 0 < splits[1] /\ splits[1] < splits[2] /\ splits[2] < Den
    /\ \E d \in dev_docs : Rank(d) * Den = splits[1] * N

\* C3: a second run over the same documents with the same fractions ends with
\* the same train, dev and test sets as the first, whatever order the store
\* delivered the documents in.
C3_Deterministic ==
    (run > 1 /\ PartitionDone) => << train_docs, dev_docs, test_docs >> = prev

C3_Witness ==
    /\ run > 1 /\ PartitionDone /\ N >= 3
    /\ train_docs # {} /\ dev_docs # {} /\ test_docs # {}
    /\ mention_calls # << >>
    /\ \E k \in 1 .. N : mention_calls[1].list[k] # data[k][2]

C5_Original ==
    (PartitionDone /\ splits = << 0, Den >>) =>
        /\ dev_docs = {}
        /\ Cardinality(train_docs) = 0
        /\ Cardinality(test_docs) = N

\* C5 as amended: with f1 = 0 and f2 = 1 train and test are empty and dev
\* holds all N documents.
C5_AllDev ==
    (PartitionDone /\ splits = << 0, Den >>) =>
        /\ train_docs = {}
        /\ test_docs = {}
        /\ dev_docs = store

C5_Witness ==
    PartitionDone /\ splits = << 0, Den >> /\ N = MaxDocs /\ dev_docs = store

\* C6: f1 = f2 leaves dev empty, f1 = 0 leaves train empty, f2 = 1 leaves test
\* empty, and with no documents the loop takes no step and all three subsets
\* are empty.
C6_Degenerate ==
    /\ (store = {} /\ pc = "loop") => i = 0
    /\ PartitionDone =>
        /\ splits[1] = splits[2] => dev_docs = {}
        /\ splits[1] = 0 => train_docs = {}
        /\ splits[2] = Den => test_docs = {}
        /\ store = {} =>
            (train_docs = {} /\ dev_docs = {} /\ test_docs = {})

C6_Witness ==
    /\ PartitionDone /\ N >= 2
    /\ splits[1] = splits[2] /\ 0 < splits[1] /\ splits[1] < Den
    /\ dev_docs = {} /\ train_docs # {} /\ test_docs # {}

\* C7: with the notebook's 0.5 and 0.75, N divisible by 4 gives subsets of
\* N/2, N/4 and N/4 documents, and the documents a, b, c, d give
\* train = {a, b}, dev = {c}, test = {d}.
C7_Tutorial ==
    (PartitionDone /\ splits = TutorialSplits) =>
        /\ N % 4 = 0 =>
            /\ Cardinality(train_docs) = N \div 2
            /\ Cardinality(dev_docs) = N \div 4
            /\ Cardinality(test_docs) = N \div 4
        /\ store = { Doc(<< 97 >>), Doc(<< 98 >>), Doc(<< 99 >>), Doc(<< 100 >>) } =>
            /\ train_docs = { Doc(<< 97 >>), Doc(<< 98 >>) }
            /\ dev_docs = { Doc(<< 99 >>) }
            /\ test_docs = { Doc(<< 100 >>) }

C7_Witness ==
    /\ PartitionDone /\ splits = TutorialSplits
    /\ store = { Doc(<< 97 >>), Doc(<< 98 >>), Doc(<< 99 >>), Doc(<< 100 >>) }
    /\ docs.kind = "list" /\ docs.list[1] = Doc(<< 100 >>)
    /\ dev_docs = { Doc(<< 99 >>) }

\* C8: candidate extraction is applied to train_docs with split 0, then to
\* dev_docs with split 1, then to test_docs with split 2; at the end every
\* document has been submitted exactly once, with the index of its subset; and
\* mention extraction over the full document list came before any candidate
\* extraction.
C8_Extraction ==
    /\ cand_calls # << >> =>
        /\ Len(mention_calls) = 1
        /\ mention_calls[1].kind = "list"
        /\ Len(mention_calls[1].list) = N
        /\ Range(mention_calls[1].list) = store
    /\ pc = "done" =>
        /\ cand_calls = << [docs |-> train_docs, split |-> 0],
                           [docs |-> dev_docs, split |-> 1],
                           [docs |-> test_docs, split |-> 2] >>
        /\ \A d \in store :
            /\ Cardinality({ k \in 1 .. Len(cand_calls) :
                               d \in cand_calls[k].docs }) = 1
            /\ \A k \in 1 .. Len(cand_calls) :
                d \in cand_calls[k].docs =>
                    \/ cand_calls[k].split = 0 /\ d \in train_docs
                    \/ cand_calls[k].split = 1 /\ d \in dev_docs
                    \/ cand_calls[k].split = 2 /\ d \in test_docs

C8_Witness ==
    /\ pc = "done" /\ N >= 3 /\ Len(cand_calls) = 3
    /\ cand_calls[1].docs # {} /\ cand_calls[2].docs # {}
    /\ cand_calls[3].docs # {}

\* A step of the partitioning cell after its query keeps the document list.
PartitionStepKeepsInput ==
    pc \in { "sets", "data", "sort", "loop" } =>
        /\ docs' = docs
        /\ store' = store
        /\ UNCHANGED << splits, ld, mention_calls, cand_calls >>

\* C9: the steps of the partitioning cell after the query leave the document
\* list and the store as they are; they write only the three sets, the sorted
\* copy and the loop index.
C9_InputUnchanged == [][PartitionStepKeepsInput]_vars

C9_Witness ==
    /\ pc = "mention" /\ N >= 3 /\ docs.kind = "list"
    /\ \E k \in 1 .. N : docs.list[k] # data[k][2]
    /\ train_docs \cup dev_docs \cup test_docs = store

\* C10: for valid fractions the subsets have ceil(f1*N), ceil(f2*N) -
\* ceil(f1*N) and N - ceil(f2*N) documents, and every train name precedes
\* every dev name, which precedes every test name.
C10_Sizes ==
    (PartitionDone /\ ValidSplits) =>
        /\ Cardinality(train_docs) = CeilFrac(splits[1])
        /\ Cardinality(dev_docs) = CeilFrac(splits[2]) - CeilFrac(splits[1])
        /\ Cardinality(test_docs) = N - CeilFrac(splits[2])
        /\ \A a \in train_docs, b \in dev_docs \cup test_docs :
            StrLess(a.name, b.name)
        /\ \A a \in dev_docs, b \in test_docs : StrLess(a.name, b.name)

C10_Witness ==
    /\ PartitionDone /\ ValidSplits /\ N = 3
    /\ splits = << 1, 2 >>
    /\ Cardinality(train_docs) = 1 /\ Cardinality(dev_docs) = 1

====
